---- MODULE Spec2Model ----
(***************************************************************************)
(* Model of the asynchronous job tracking of the AI Email Assistant        *)
(* frontend: the React Query mutation hooks that submit a background task  *)
(* and poll its status (hooks/useResponses.ts, useEmails.ts,               *)
(* useClients.ts), ApiService (services/api.ts) and the AppContext reducer *)
(* that records task status and notifications.                             *)
(*                                                                         *)
(* The job table behind /tasks/* lives in the backend, which is not part   *)
(* of the sources; it is modelled from the design document                 *)
(* (sections 4.1 and 4.3).                                                 *)
(***************************************************************************)
EXTENDS Integers, Sequences, FiniteSets, TLC

VARIABLES
    job,            \* backend job table: task id -> job state
    cancelledFrom,  \* backend: the state a job was in when a cancel was accepted
    call,           \* one record per hook mutation: hook, pc, task id, last response
    activeTasks,    \* AppState.activeTasks : Map<string, TaskStatus>
    taskHistory,    \* AppState.taskHistory : TaskStatus[]
    notifications,  \* AppState.notifications : Notification[]
    stream,         \* one ApiService.streamTaskUpdates call
    gen,            \* calls of ApiService.generateResponse and the bodies they post
    authState,      \* AuthProvider: the AuthState held by useState
    apiAuth,        \* ApiService.authToken, localStorage 'auth_token', window.location.href
    authCall,       \* the auth requests in flight: checkAuthStatus, login, logout
    engine,         \* backend: one GenerateResponse job, its engine run, and the poll loop watching it
    queryCache,     \* React Query cache: the emailQueryKeys.detail(id) entries and the list entry
    update,         \* the useUpdateEmail mutations
    query           \* one list query (useEmails, useClients, useResponses) and its retries

taskVars == <<job, cancelledFrom, call, activeTasks, taskHistory, notifications, stream, gen>>

authVars == <<authState, apiAuth, authCall>>

cacheVars == <<queryCache, update>>

vars == <<taskVars, authVars, engine, cacheVars, query>>

----------------------------------------------------------------------------
(* Bounds *)

\* number of hook mutations (and so of submitted tasks) in one run
MaxTasks == 1

\* number of status requests one streamTaskUpdates call sends in one run
MaxPolls == 3

\* number of terminal entries the reducer runs let taskHistory grow to
MaxHistory == 3

\* number of task ids the payloads dispatched to the reducer range over
MaxReducerTasks == 2

\* number of generateResponse calls compared in one run
MaxCalls == 2

Slots == 1..MaxTasks

\* the backend gives the task accepted for mutation s the id s
TaskIds == Slots

NoTask == 0

----------------------------------------------------------------------------
(* Status vocabulary *)

\* running statuses the client tests for
ActiveStatuses == {"PENDING", "STARTED"}

\* the statuses the backend can report; REVOKED is a cancelled job
TerminalStatuses == {"SUCCESS", "FAILURE", "REVOKED"}

Statuses == ActiveStatuses \cup TerminalStatuses

\* a failed request: 404 for an unknown or evicted id, or no reply at all
NotFound == "NotFound"

NetworkError == "NetworkError"

Errors == {NotFound, NetworkError}

----------------------------------------------------------------------------
(* ApiService: the requests the task methods send *)

\* a copy-paste slip: the status poll sent to the cancel endpoint
getTaskStatus_asCancel(taskId) == [method |-> "DELETE", url |-> "/tasks/cancel", task |-> taskId]

getTaskStatus(taskId) == [method |-> "GET", url |-> "/tasks/status", task |-> taskId]

cancelTask(taskId) == [method |-> "DELETE", url |-> "/tasks/cancel", task |-> taskId]

----------------------------------------------------------------------------
(* Backend job table, from the design document *)

JobStates == {"absent", "evicted"} \cup Statuses

\* PENDING -> STARTED -> {SUCCESS, FAILURE, REVOKED}, PENDING -> REVOKED
LegalTransition(a, b) ==
    \/ a = "PENDING" /\ b \in {"STARTED", "REVOKED"}
    \/ a = "STARTED" /\ b \in TerminalStatuses

\* the job table after the backend has handled req
ServerJobAfter(req) ==
    IF /\ req.method = "DELETE" /\ req.url = "/tasks/cancel"
       /\ req.task \in DOMAIN job
       /\ job[req.task] \in ActiveStatuses
    THEN [job EXCEPT ![req.task] = "REVOKED"]
    ELSE job

\* the reply to req: a status snapshot, or NotFound
ServerReply(req) ==
    IF req.task \notin DOMAIN job
    THEN NotFound
    ELSE IF job[req.task] \in {"absent", "evicted"}
    THEN NotFound
    ELSE IF req.method = "GET" /\ req.url = "/tasks/status"
         THEN job[req.task]
         ELSE ServerJobAfter(req)[req.task]

\* the worker picks the job up
JobStart(t) ==
    /\ job[t] = "PENDING"
    /\ job' = [job EXCEPT ![t] = "STARTED"]
    /\ UNCHANGED <<cancelledFrom, call, activeTasks, taskHistory, notifications, stream, gen,
                   authVars, engine, cacheVars, query>>

\* the worker finishes: a result, or an error or timeout recorded as FAILURE
JobFinish(t, outcome) ==
    /\ job[t] = "STARTED"
    /\ outcome \in {"SUCCESS", "FAILURE"}
    /\ job' = [job EXCEPT ![t] = outcome]
    /\ UNCHANGED <<cancelledFrom, call, activeTasks, taskHistory, notifications, stream, gen,
                   authVars, engine, cacheVars, query>>

\* DELETE /tasks/cancel/{id}: accepted for a job that is not terminal, a no-op otherwise
Cancel(t) ==
    /\ job[t] \in Statuses
    /\ job' = ServerJobAfter(cancelTask(t))
    /\ cancelledFrom' = IF job[t] \in ActiveStatuses
                        THEN [cancelledFrom EXCEPT ![t] = job[t]]
                        ELSE cancelledFrom
    /\ UNCHANGED <<call, activeTasks, taskHistory, notifications, stream, gen,
                   authVars, engine, cacheVars, query>>

\* housekeeping removes a terminal job after the retention window
Evict(t) ==
    /\ job[t] \in TerminalStatuses
    /\ job' = [job EXCEPT ![t] = "evicted"]
    /\ UNCHANGED <<cancelledFrom, call, activeTasks, taskHistory, notifications, stream, gen,
                   authVars, engine, cacheVars, query>>

----------------------------------------------------------------------------
(* AppContext reducer (appReducer) and convenience methods *)

\* Array.prototype.slice(0, n)
slice(seq, n) == SubSeq(seq, 1, IF Len(seq) < n THEN Len(seq) ELSE n)

\* Map.prototype.set and Map.prototype.delete on a copy of the map
MapSet(m, k, v) == [x \in DOMAIN m \cup {k} |-> IF x = k THEN v ELSE m[x]]

MapDelete(m, k) == [x \in DOMAIN m \ {k} |-> m[x]]

\* taskHistory.slice(0, 49) and notifications.slice(0, 99)
HistoryKeep == 49

NotificationKeep == 99

\* the statuses UPDATE_TASK moves to the history
FinishedStatuses == {"SUCCESS", "FAILURE"}

TaskStatus(taskId, status) == [task_id |-> taskId, status |-> status]

ADD_TASK(tasks, payload) == MapSet(tasks, payload.task_id, payload)

\* a reducer that keeps the entry a task already has instead of overwriting it
UPDATE_TASK_activeTasks_keepFirst(tasks, payload) ==
    IF payload.status \in FinishedStatuses
    THEN MapDelete(tasks, payload.task_id)
    ELSE IF payload.task_id \in DOMAIN tasks THEN tasks
    ELSE MapSet(tasks, payload.task_id, payload)

UPDATE_TASK_activeTasks(tasks, payload) ==
    IF payload.status \in FinishedStatuses
    THEN MapDelete(MapSet(tasks, payload.task_id, payload), payload.task_id)
    ELSE MapSet(tasks, payload.task_id, payload)

\* a reducer that adds the finished task at the end of the history
UPDATE_TASK_taskHistory_appends(history, payload) ==
    IF payload.status \in FinishedStatuses
    THEN slice(history, HistoryKeep) \o <<payload>>
    ELSE history

\* a reducer that never drops an entry
UPDATE_TASK_taskHistory_keepsAll(history, payload) ==
    IF payload.status \in FinishedStatuses
    THEN <<payload>> \o history
    ELSE history

UPDATE_TASK_taskHistory(history, payload) ==
    IF payload.status \in FinishedStatuses
    THEN <<payload>> \o slice(history, HistoryKeep)
    ELSE history

REMOVE_TASK(tasks, taskId) == MapDelete(tasks, taskId)

ADD_NOTIFICATION(notifs, payload) ==
    <<[type |-> payload.type, title |-> payload.title, task |-> payload.task,
       read |-> FALSE]>> \o slice(notifs, NotificationKeep)

\* what a caller passes to addNotification; task is the task id of the mutation
\* that raised it (NoTask when it has none)
Notice(type, title, task) == [type |-> type, title |-> title, task |-> task]

\* the notifications after updateTaskStatus(taskStatus)
updateTaskStatus_notifications(notifs, taskStatus) ==
    IF taskStatus.status = "SUCCESS"
    THEN ADD_NOTIFICATION(notifs, Notice("success", "Task Completed", taskStatus.task_id))
    ELSE IF taskStatus.status = "FAILURE"
    THEN ADD_NOTIFICATION(notifs, Notice("error", "Task Failed", taskStatus.task_id))
    ELSE notifs

----------------------------------------------------------------------------
(* The mutation hooks that submit a task and poll it *)

Hooks == {"useGenerateResponse", "useGenerateRagResponse", "useAnalyzeEmail",
          "useAnalyzeClient", "useAnalyzeWritingStyle", "useComprehensiveAnalysis"}

GenerationHooks == {"useGenerateResponse", "useGenerateRagResponse"}

\* hooks whose onSuccess tests data.task_id and reports an immediate result without it
OptionalTaskHooks == {"useAnalyzeClient", "useAnalyzeWritingStyle", "useComprehensiveAnalysis"}

\* hooks whose pollTask raises its own success and failure notifications
NotifyingHooks == Hooks \ {"useAnalyzeEmail"}

StartedTitle(h) ==
    CASE h = "useGenerateResponse" -> "Response generation started"
      [] h = "useGenerateRagResponse" -> "RAG response generation started"
      [] h = "useAnalyzeEmail" -> "Analysis started"
      [] h = "useAnalyzeClient" -> "Client analysis started"
      [] h = "useAnalyzeWritingStyle" -> "Writing style analysis started"
      [] h = "useComprehensiveAnalysis" -> "Comprehensive analysis started"

SuccessTitle(h) ==
    CASE h = "useGenerateResponse" -> "Response generated"
      [] h = "useGenerateRagResponse" -> "Enhanced response generated"
      [] h = "useAnalyzeClient" -> "Client analysis completed"
      [] h = "useAnalyzeWritingStyle" -> "Writing style analysis completed"
      [] h = "useComprehensiveAnalysis" -> "Comprehensive analysis completed"

FailureTitle(h) ==
    CASE h = "useGenerateResponse" -> "Response generation failed"
      [] h = "useGenerateRagResponse" -> "RAG response generation failed"
      [] h = "useAnalyzeClient" -> "Client analysis failed"
      [] h = "useAnalyzeWritingStyle" -> "Writing style analysis failed"
      [] h = "useComprehensiveAnalysis" -> "Comprehensive analysis failed"

SubmitErrorTitle(h) ==
    CASE h = "useGenerateResponse" -> "Failed to start response generation"
      [] h = "useGenerateRagResponse" -> "Failed to start RAG response generation"
      [] h = "useAnalyzeEmail" -> "Failed to start analysis"
      [] h = "useAnalyzeClient" -> "Failed to analyze client"
      [] h = "useAnalyzeWritingStyle" -> "Failed to analyze writing style"
      [] h = "useComprehensiveAnalysis" -> "Failed to start comprehensive analysis"

IdleCall == [hook |-> "none", pc |-> "idle", task |-> NoTask, snap |-> "none"]

\* the test of streamTaskUpdates used in pollTask: stop on SUCCESS and FAILURE only
ContinuePolling_unlessFinished(status) == status # "SUCCESS" /\ status # "FAILURE"

\* a loop that treats a cancelled task as still running
ContinuePolling_throughCancel(status) == status \in {"PENDING", "STARTED", "REVOKED"}

\* pollTask: the branch that re-arms the timer
ContinuePolling(status) == status = "PENDING" \/ status = "STARTED"

\* pollTask: the notifications the hook itself raises after updateTaskStatus
pollTask_notifications(notifs, h, taskStatus) ==
    IF taskStatus.status = "SUCCESS" /\ h \in NotifyingHooks
    THEN ADD_NOTIFICATION(notifs, Notice("success", SuccessTitle(h), taskStatus.task_id))
    ELSE IF ContinuePolling(taskStatus.status)
    THEN notifs
    ELSE IF taskStatus.status = "FAILURE" /\ h \in NotifyingHooks
    THEN ADD_NOTIFICATION(notifs, Notice("error", FailureTitle(h), taskStatus.task_id))
    ELSE notifs

\* mutation.mutate(...): mutationFn posts the submission
Mutate(s, h) ==
    /\ call[s].pc = "idle"
    /\ IF s = 1 THEN TRUE ELSE call[s - 1].pc # "idle"
    /\ call' = [call EXCEPT ![s] = [@ EXCEPT !.hook = h, !.pc = "submit"]]
    /\ UNCHANGED <<job, cancelledFrom, activeTasks, taskHistory, notifications, stream, gen,
                   authVars, engine, cacheVars, query>>

\* the backend registers the job as PENDING and answers with its id
ServerAccept(s) ==
    /\ call[s].pc = "submit"
    /\ job' = [job EXCEPT ![s] = "PENDING"]
    /\ call' = [call EXCEPT ![s] = [@ EXCEPT !.pc = "accepted", !.task = s]]
    /\ UNCHANGED <<cancelledFrom, activeTasks, taskHistory, notifications, stream, gen,
                   authVars, engine, cacheVars, query>>

\* an analysis endpoint answers with the result itself and no task_id
ServerImmediate(s) ==
    /\ call[s].pc = "submit"
    /\ call[s].hook \in OptionalTaskHooks
    /\ call' = [call EXCEPT ![s] = [@ EXCEPT !.pc = "accepted"]]
    /\ UNCHANGED <<job, cancelledFrom, activeTasks, taskHistory, notifications, stream, gen,
                   authVars, engine, cacheVars, query>>

\* the submission is rejected (ValidationError, or the request fails): no job is created
ServerReject(s) ==
    /\ call[s].pc = "submit"
    /\ call' = [call EXCEPT ![s] = [@ EXCEPT !.pc = "failed"]]
    /\ UNCHANGED <<job, cancelledFrom, activeTasks, taskHistory, notifications, stream, gen,
                   authVars, engine, cacheVars, query>>

\* onSuccess: the "started" notification and setTimeout(pollTask, 1000), or the
\* immediate-result notification when the reply has no task_id
OnSuccess(s) ==
    /\ call[s].pc = "accepted"
    /\ IF call[s].task # NoTask
       THEN /\ notifications' = ADD_NOTIFICATION(notifications,
                                    Notice("info", StartedTitle(call[s].hook), call[s].task))
            /\ call' = [call EXCEPT ![s] = [@ EXCEPT !.pc = "timer"]]
       ELSE /\ notifications' = ADD_NOTIFICATION(notifications,
                                    Notice("success", SuccessTitle(call[s].hook), NoTask))
            /\ call' = [call EXCEPT ![s] = [@ EXCEPT !.pc = "immediate"]]
    /\ UNCHANGED <<job, cancelledFrom, activeTasks, taskHistory, stream, gen,
                   authVars, engine, cacheVars, query>>

\* an onError that also starts the poll loop, as onSettled would
OnError_startsPolling(s) ==
    /\ call[s].pc = "failed"
    /\ notifications' = ADD_NOTIFICATION(notifications,
                            Notice("error", SubmitErrorTitle(call[s].hook), NoTask))
    /\ call' = [call EXCEPT ![s] = [@ EXCEPT !.pc = "timer"]]
    /\ UNCHANGED <<job, cancelledFrom, activeTasks, taskHistory, stream, gen,
                   authVars, engine, cacheVars, query>>

\* onError: only the error notification
OnError(s) ==
    /\ call[s].pc = "failed"
    /\ notifications' = ADD_NOTIFICATION(notifications,
                            Notice("error", SubmitErrorTitle(call[s].hook), NoTask))
    /\ call' = [call EXCEPT ![s] = [@ EXCEPT !.pc = "rejected"]]
    /\ UNCHANGED <<job, cancelledFrom, activeTasks, taskHistory, stream, gen,
                   authVars, engine, cacheVars, query>>

\* the timer fires: pollTask runs and sends apiService.getTaskStatus(data.task_id)
TimerFires(s) ==
    /\ call[s].pc = "timer"
    /\ call' = [call EXCEPT ![s] = [@ EXCEPT !.pc = "request"]]
    /\ UNCHANGED <<job, cancelledFrom, activeTasks, taskHistory, notifications, stream, gen,
                   authVars, engine, cacheVars, query>>

\* the backend handles the status request of pollTask
ServerStatus(s) ==
    /\ call[s].pc = "request"
    /\ job' = ServerJobAfter(getTaskStatus(call[s].task))
    /\ call' = [call EXCEPT ![s] =
                   [@ EXCEPT !.pc = "response", !.snap = ServerReply(getTaskStatus(call[s].task))]]
    /\ UNCHANGED <<cancelledFrom, activeTasks, taskHistory, notifications, stream, gen,
                   authVars, engine, cacheVars, query>>

\* the status request gets no reply (network failure, axios timeout)
RequestFails(s) ==
    /\ call[s].pc = "request"
    /\ call' = [call EXCEPT ![s] = [@ EXCEPT !.pc = "response", !.snap = NetworkError]]
    /\ UNCHANGED <<job, cancelledFrom, activeTasks, taskHistory, notifications, stream, gen,
                   authVars, engine, cacheVars, query>>

\* pollTask resumes after the await: catch on a failed request, else
\* updateTaskStatus(status) and the branch on status.status
PollTask(s) ==
    LET c == call[s]
        status == TaskStatus(c.task, c.snap)
    IN  /\ c.pc = "response"
        /\ IF c.snap \in Errors
           THEN /\ call' = [call EXCEPT ![s] = [@ EXCEPT !.pc = "done"]]
                /\ UNCHANGED <<activeTasks, taskHistory, notifications>>
           ELSE /\ activeTasks' = UPDATE_TASK_activeTasks(activeTasks, status)
                /\ taskHistory' = UPDATE_TASK_taskHistory(taskHistory, status)
                /\ notifications' = pollTask_notifications(
                                        updateTaskStatus_notifications(notifications, status),
                                        c.hook, status)
                /\ call' = [call EXCEPT ![s] =
                               IF ContinuePolling(c.snap)
                               THEN [@ EXCEPT !.pc = "timer", !.snap = "none"]
                               ELSE [@ EXCEPT !.pc = "done"]]
        /\ UNCHANGED <<job, cancelledFrom, stream, gen, authVars, engine, cacheVars, query>>

----------------------------------------------------------------------------
(* Values the variables of the other specifications rest at *)

StreamIdle == [interval |-> "none", task |-> NoTask, req |-> <<>>, delivered |-> <<>>]

EmptyObj == [k \in {} |-> TRUE]

GenIdle == <<>>

EmptyMap == [x \in {} |-> NoTask]

\* JavaScript null
Null == "null"

\* an axios error that carries no response (error.response is undefined)
NoResponse == 0

AuthOps == {"checkAuthStatus", "login", "logout"}

\* useState<AuthState>({ isAuthenticated: false, user: null, isLoading: true, error: null })
AuthStateInitial == [isAuthenticated |-> FALSE, user |-> Null, isLoading |-> TRUE, error |-> Null]

\* overtaken: a logout() has completed while this call was in flight
AuthCallIdle == [pc |-> "idle", bearer |-> Null, status |-> NoResponse, authed |-> FALSE,
                 user |-> Null, outcome |-> "none", completed |-> FALSE,
                 overtaken |-> FALSE]

\* a cache entry that is not there: getQueryData returns undefined
Undefined == [present |-> FALSE, stale |-> FALSE, data |-> EmptyObj]

\* the email ids the detail cache is keyed by
CachedEmailIds == {"email-1", "email-2"}

UpdateIdle == [pc |-> "idle", emailId |-> "none", updates |-> EmptyObj,
               before |-> Undefined, previousEmail |-> Undefined]

\* the mutations of useUpdateEmail that may be under way at the same time
UpdateSlots == {1, 2}

QueryIdle == [hook |-> "none", pc |-> "idle", failureCount |-> 0, errors |-> <<>>,
              retries |-> 0]

\* no draft composed yet
NoDraft == [text |-> <<>>, strategy |-> "none", confidence |-> 0]

\* a strategy input that has not been looked at yet
Untried == [outcome |-> "untried", confidence |-> 0, text |-> <<>>]

EngineIdle == [stage |-> "idle", elapsed |-> 0, rag |-> Untried, rule |-> Untried,
               draft |-> NoDraft, result |-> NoDraft, error |-> "none"]

\* no task submitted, nothing recorded
TasksAtRest ==
    /\ job = [t \in TaskIds |-> "absent"]
    /\ cancelledFrom = [t \in TaskIds |-> "none"]
    /\ call = [s \in Slots |-> IdleCall]
    /\ activeTasks = EmptyMap
    /\ taskHistory = <<>>
    /\ notifications = <<>>
    /\ stream = StreamIdle
    /\ gen = GenIdle

\* the AuthProvider as constructed, no token stored
AuthAtRest ==
    /\ authState = AuthStateInitial
    /\ apiAuth = [authToken |-> Null, stored |-> Null, href |-> "/"]
    /\ authCall = [op \in AuthOps |-> AuthCallIdle]

EngineAtRest == engine = EngineIdle

CacheAtRest ==
    /\ queryCache = [detail |-> [e \in CachedEmailIds |-> Undefined], lists |-> Undefined]
    /\ update = [m \in UpdateSlots |-> UpdateIdle]

QueryAtRest == query = QueryIdle

----------------------------------------------------------------------------
(* Spec: hook mutations, their poll loops, and the jobs they poll *)

Init ==
    /\ job = [t \in TaskIds |-> "absent"]
    /\ cancelledFrom = [t \in TaskIds |-> "none"]
    /\ call = [s \in Slots |-> IdleCall]
    /\ activeTasks = EmptyMap
    /\ taskHistory = <<>>
    /\ notifications = <<>>
    /\ stream = StreamIdle
    /\ gen = GenIdle
    /\ AuthAtRest /\ EngineAtRest /\ CacheAtRest /\ QueryAtRest

Next ==
    \/ \E s \in Slots, h \in Hooks : Mutate(s, h)
    \/ \E s \in Slots : ServerAccept(s)
    \/ \E s \in Slots : ServerImmediate(s)
    \/ \E s \in Slots : ServerReject(s)
    \/ \E s \in Slots : OnSuccess(s)
    \/ \E s \in Slots : OnError(s)
    \/ \E s \in Slots : TimerFires(s)
    \/ \E s \in Slots : ServerStatus(s)
    \/ \E s \in Slots : RequestFails(s)
    \/ \E s \in Slots : PollTask(s)
    \/ \E t \in TaskIds : JobStart(t)
    \/ \E t \in TaskIds, o \in {"SUCCESS", "FAILURE"} : JobFinish(t, o)
    \/ \E t \in TaskIds : Cancel(t)
    \/ \E t \in TaskIds : Evict(t)

Spec == Init /\ [][Next]_vars

----------------------------------------------------------------------------
(* Properties of the hook poll loops (Spec) *)

\* pollTask of slot s resumes after its await in this step
Resumes(s) == call[s].pc = "response" /\ call'[s].pc # "response"

HasEntry(history, t, status) ==
    \E k \in 1..Len(history) : history[k].task_id = t /\ history[k].status = status

\* C1: in every hook poll loop a status request is sent only from an armed timer,
\* the timer is armed only by onSuccess or after a PENDING or STARTED status, and
\* after any other status or a failed request the loop has ended for good.
C1_PollOnlyWhileActive ==
    [][\A s \in Slots :
          /\ Resumes(s) => call'[s].pc \in {"timer", "done"}
          /\ (Resumes(s) /\ call'[s].pc = "timer") => call[s].snap \in ActiveStatuses
          /\ (call'[s].pc = "timer" /\ call[s].pc # "timer")
                => (call[s].pc = "accepted" \/ Resumes(s))
          /\ (call'[s].pc = "request" /\ call[s].pc # "request") => call[s].pc = "timer"
          /\ call[s].pc = "done" => call'[s] = call[s]
      ]_vars

\* a loop that ended on a cancelled status
C1_Witness == \E s \in Slots : call[s].pc = "done" /\ call[s].snap = "REVOKED"

\* C3: a generation poll loop that has ended has raised a success or an error
\* notification for its task.
C3_NoSilentEnd ==
    \A s \in Slots :
        (call[s].hook \in GenerationHooks /\ call[s].pc = "done")
            => \E k \in 1..Len(notifications) :
                   /\ notifications[k].task = call[s].task
                   /\ notifications[k].type \in {"success", "error"}

\* C5 as claimed: once a cancel was accepted for a running job, every status the
\* client records for the task is cancelled, in-flight polls included.
C5_RecordsOnlyCancelled ==
    [][\A s \in Slots :
          (/\ Resumes(s)
           /\ call[s].snap \in Statuses
           /\ cancelledFrom[call[s].task] = "STARTED")
              => /\ call[s].task \in DOMAIN activeTasks'
                 /\ activeTasks'[call[s].task].status = "REVOKED"
      ]_vars

\* C5 amended: once a cancel was accepted for a running job, every status request
\* the backend answers from then on reports cancelled, the client records that
\* status as cancelled, and it never records SUCCESS for the task.
C5_CancelledOncePolledAfter ==
    /\ [][\A s \in Slots :
            /\ (/\ call[s].pc = "request"
                /\ call'[s].pc = "response"
                /\ call'[s].snap \notin Errors
                /\ cancelledFrom[call[s].task] = "STARTED")
                   => call'[s].snap = "REVOKED"
            /\ (Resumes(s) /\ call[s].snap = "REVOKED")
                   => /\ call[s].task \in DOMAIN activeTasks'
                      /\ activeTasks'[call[s].task].status = "REVOKED"
         ]_vars
    /\ [](\A t \in TaskIds :
            cancelledFrom[t] = "STARTED"
                => /\ ~HasEntry(taskHistory, t, "SUCCESS")
                   /\ t \in DOMAIN activeTasks => activeTasks[t].status # "SUCCESS")

\* a cancel accepted while the job was running, and the loop ended on REVOKED
C5_Witness ==
    \E s \in Slots :
        /\ call[s].pc = "done"
        /\ call[s].task \in DOMAIN activeTasks
        /\ cancelledFrom[call[s].task] = "STARTED"
        /\ activeTasks[call[s].task].status = "REVOKED"

\* C8: a rejected submission creates no job, adds nothing to activeTasks or
\* taskHistory, starts no poll loop and raises exactly one error notification.
C8_RejectedSubmitCreatesNothing ==
    [][\A s \in Slots :
          /\ (call[s].pc = "submit" /\ call'[s].pc = "failed") => job' = job
          /\ (call[s].pc = "failed" /\ call'[s].pc # "failed")
                => /\ call'[s].pc = "rejected"
                   /\ call'[s].task = NoTask
                   /\ activeTasks' = activeTasks
                   /\ taskHistory' = taskHistory
                   /\ job' = job
                   /\ Len(notifications') = Len(notifications) + 1
                   /\ Head(notifications').type = "error"
                   /\ Tail(notifications') = notifications
          /\ call[s].pc = "rejected" => call'[s] = call[s]
      ]_vars

\* a mutation whose submission was rejected and whose onError has run
C8_Witness ==
    \E s \in Slots :
        /\ call[s].pc = "rejected"
        /\ Len(notifications) = 1
        /\ notifications[1].type = "error"

----------------------------------------------------------------------------
(* ApiService.streamTaskUpdates: setInterval with an async callback *)

\* stream.req[i] is the i-th status request of the call: snap is the reply ("none"
\* while unanswered), handled tells whether the callback has resumed with it;
\* stream.delivered is the sequence of statuses passed to onUpdate

\* streamTaskUpdates: the test that clears the interval
StreamFinished(status) == status = "SUCCESS" \/ status = "FAILURE"

\* streamTaskUpdates(taskId, onUpdate): setInterval(..., 2000)
StreamStart(t) ==
    /\ stream.interval = "none"
    /\ stream' = [stream EXCEPT !.interval = "active", !.task = t]
    /\ UNCHANGED <<job, cancelledFrom, call, activeTasks, taskHistory, notifications, gen,
                   authVars, engine, cacheVars, query>>

\* the interval fires: the callback sends this.getTaskStatus(taskId)
StreamTick ==
    /\ stream.interval = "active"
    /\ Len(stream.req) < MaxPolls
    /\ stream' = [stream EXCEPT !.req = Append(@, [snap |-> "none", handled |-> FALSE])]
    /\ UNCHANGED <<job, cancelledFrom, call, activeTasks, taskHistory, notifications, gen,
                   authVars, engine, cacheVars, query>>

\* the backend handles the i-th status request
StreamServerStatus(i) ==
    /\ i \in DOMAIN stream.req
    /\ stream.req[i].snap = "none"
    /\ job' = ServerJobAfter(getTaskStatus(stream.task))
    /\ stream' = [stream EXCEPT !.req[i].snap = ServerReply(getTaskStatus(stream.task))]
    /\ UNCHANGED <<cancelledFrom, call, activeTasks, taskHistory, notifications, gen,
                   authVars, engine, cacheVars, query>>

\* the i-th status request gets no reply
StreamRequestFails(i) ==
    /\ i \in DOMAIN stream.req
    /\ stream.req[i].snap = "none"
    /\ stream' = [stream EXCEPT !.req[i].snap = NetworkError]
    /\ UNCHANGED <<job, cancelledFrom, call, activeTasks, taskHistory, notifications, gen,
                   authVars, engine, cacheVars, query>>

\* the callback of the i-th request resumes: onUpdate(status) and clearInterval on
\* SUCCESS or FAILURE, or the catch branch with clearInterval
StreamResume(i) ==
    /\ i \in DOMAIN stream.req
    /\ stream.req[i].snap # "none"
    /\ ~stream.req[i].handled
    /\ stream' = IF stream.req[i].snap \in Errors
                 THEN [stream EXCEPT !.req[i].handled = TRUE, !.interval = "cleared"]
                 ELSE [stream EXCEPT !.req[i].handled = TRUE,
                                     !.delivered = Append(@, stream.req[i].snap),
                                     !.interval = IF StreamFinished(stream.req[i].snap)
                                                  THEN "cleared" ELSE @]
    /\ UNCHANGED <<job, cancelledFrom, call, activeTasks, taskHistory, notifications, gen,
                   authVars, engine, cacheVars, query>>

\* the task id the call is made with
StreamTask == 1

\* SpecStream: one streamTaskUpdates call on a job that was submitted, or on an unknown id
InitStream ==
    /\ job \in {[t \in TaskIds |-> IF t = StreamTask THEN st ELSE "absent"] :
                  st \in {"absent", "PENDING"}}
    /\ cancelledFrom = [t \in TaskIds |-> "none"]
    /\ call = [s \in Slots |-> IdleCall]
    /\ activeTasks = EmptyMap
    /\ taskHistory = <<>>
    /\ notifications = <<>>
    /\ stream = StreamIdle
    /\ gen = GenIdle
    /\ AuthAtRest /\ EngineAtRest /\ CacheAtRest /\ QueryAtRest

NextStream ==
    \/ StreamStart(StreamTask)
    \/ StreamTick
    \/ \E i \in 1..MaxPolls : StreamServerStatus(i)
    \/ \E i \in 1..MaxPolls : StreamRequestFails(i)
    \/ \E i \in 1..MaxPolls : StreamResume(i)
    \/ \E t \in TaskIds : JobStart(t)
    \/ \E t \in TaskIds, o \in {"SUCCESS", "FAILURE"} : JobFinish(t, o)
    \/ \E t \in TaskIds : Cancel(t)
    \/ \E t \in TaskIds : Evict(t)

SpecStream == InitStream /\ [][NextStream]_vars

----------------------------------------------------------------------------
(* Properties of streamTaskUpdates (SpecStream) *)

\* a callback has resumed with a terminal status or with a failed request
StreamObservedStop ==
    \E i \in DOMAIN stream.req :
        stream.req[i].handled /\ stream.req[i].snap \in TerminalStatuses \cup Errors

\* C2: once a poll of streamTaskUpdates has observed a terminal status (succeeded,
\* failed or cancelled) or a failed request, the interval is cleared and no
\* further status request is sent.
C2_StreamStopsOnTerminal ==
    [][StreamObservedStop'
          => /\ stream'.interval = "cleared"
             /\ StreamObservedStop => Len(stream'.req) = Len(stream.req)
      ]_vars

\* b can be observed after a: the job stays where it is or moves along the graph
Reachable(a, b) ==
    \/ a = b
    \/ LegalTransition(a, b)
    \/ \E m \in Statuses : LegalTransition(a, m) /\ LegalTransition(m, b)

\* C4: the statuses streamTaskUpdates delivers to onUpdate follow the transition
\* graph: each one is the previous one or a state reachable from it.
C4_DeliveredFollowsGraph ==
    \A k \in 1..(Len(stream.delivered) - 1) :
        Reachable(stream.delivered[k], stream.delivered[k + 1])

\* C9: answering a status request leaves the job table unchanged; a request
\* answered once the job is terminal returns that terminal status, or NotFound
\* once the job is evicted; all terminal snapshots of one job agree.
C9_PollingIdempotent ==
    /\ [][\A i \in DOMAIN stream.req :
            (/\ stream.req[i].snap = "none"
             /\ stream'.req[i].snap \notin {"none", NetworkError})
                => /\ job' = job
                   /\ job[stream.task] \in TerminalStatuses
                         => stream'.req[i].snap = job[stream.task]
                   /\ job[stream.task] \in {"absent", "evicted"}
                         => stream'.req[i].snap = NotFound
         ]_vars
    /\ [](\A i, j \in DOMAIN stream.req :
            (stream.req[i].snap \in TerminalStatuses /\ stream.req[j].snap \in TerminalStatuses)
                => stream.req[i].snap = stream.req[j].snap)

\* two polls answered with the same terminal snapshot, and a later one with NotFound
C9_Witness ==
    \E i, j, k \in DOMAIN stream.req :
        /\ i # j
        /\ stream.req[i].snap \in TerminalStatuses
        /\ stream.req[j].snap = stream.req[i].snap
        /\ stream.req[k].snap = NotFound

----------------------------------------------------------------------------
(* SpecReducer: the task actions of appReducer under arbitrary dispatches *)

ReducerTasks == 1..MaxReducerTasks

Payloads == {TaskStatus(t, st) : t \in ReducerTasks, st \in Statuses}

\* dispatch({ type: 'ADD_TASK', payload })
Dispatch_ADD_TASK(payload) ==
    /\ activeTasks' = ADD_TASK(activeTasks, payload)
    /\ UNCHANGED <<job, cancelledFrom, call, taskHistory, notifications, stream, gen,
                   authVars, engine, cacheVars, query>>

\* dispatch({ type: 'UPDATE_TASK', payload })
Dispatch_UPDATE_TASK(payload) ==
    /\ payload.status \in FinishedStatuses => Len(taskHistory) < MaxHistory
    /\ activeTasks' = UPDATE_TASK_activeTasks(activeTasks, payload)
    /\ taskHistory' = UPDATE_TASK_taskHistory(taskHistory, payload)
    /\ UNCHANGED <<job, cancelledFrom, call, notifications, stream, gen,
                   authVars, engine, cacheVars, query>>

\* dispatch({ type: 'REMOVE_TASK', payload: taskId })
Dispatch_REMOVE_TASK(taskId) ==
    /\ activeTasks' = REMOVE_TASK(activeTasks, taskId)
    /\ UNCHANGED <<job, cancelledFrom, call, taskHistory, notifications, stream, gen,
                   authVars, engine, cacheVars, query>>

\* dispatch({ type: 'CLEAR_COMPLETED_TASKS' })
Dispatch_CLEAR_COMPLETED_TASKS ==
    /\ taskHistory' = <<>>
    /\ UNCHANGED <<job, cancelledFrom, call, activeTasks, notifications, stream, gen,
                   authVars, engine, cacheVars, query>>

NextReducer ==
    \/ \E p \in Payloads : Dispatch_ADD_TASK(p)
    \/ \E p \in Payloads : Dispatch_UPDATE_TASK(p)
    \/ \E t \in ReducerTasks : Dispatch_REMOVE_TASK(t)
    \/ Dispatch_CLEAR_COMPLETED_TASKS

SpecReducer == Init /\ [][NextReducer]_vars

\* the entries of task t in a history, newest first
HistoryOf(history, t) == SelectSeq(history, LAMBDA e : e.task_id = t)

\* C6: a task that a terminal UPDATE_TASK has moved from activeTasks to
\* taskHistory never appears in activeTasks again.
C6_NoReentryAfterTerminal ==
    [][\A t \in ReducerTasks :
          (HistoryOf(taskHistory, t) # <<>> /\ t \notin DOMAIN activeTasks)
              => t \notin DOMAIN activeTasks'
      ]_vars

\* C7: a terminal UPDATE_TASK for a task that already has a history entry leaves
\* that single entry, with the first outcome, as the only one of the task.
C7_FirstOutcomeRetained ==
    [][\A t \in ReducerTasks, o \in FinishedStatuses :
          (HistoryOf(taskHistory, t) # <<>> /\ Dispatch_UPDATE_TASK(TaskStatus(t, o)))
              => /\ Len(HistoryOf(taskHistory', t)) = 1
                 /\ HistoryOf(taskHistory', t) = HistoryOf(taskHistory, t)
      ]_vars

----------------------------------------------------------------------------
(* SpecGenerate: the request ApiService.generateResponse posts *)

EmailIds == {"email-1", "email-2"}

\* { ...a, ...b }
ObjectSpread(a, b) == [k \in DOMAIN a \cup DOMAIN b |-> IF k \in DOMAIN b THEN b[k] ELSE a[k]]

\* the option objects a caller can pass: each of the three optional keys set or not
OptionObjects ==
    {ObjectSpread(ObjectSpread(u, m), c) :
        u \in {EmptyObj, [k \in {"use_rag"} |-> TRUE], [k \in {"use_rag"} |-> FALSE]},
        m \in {EmptyObj, [k \in {"max_context_length"} |-> 500]},
        c \in {EmptyObj, [k \in {"custom_instructions"} |-> "be brief"]}}

\* the options argument: omitted (undefined), or one of the objects
OptionArgs == {[given |-> FALSE, obj |-> EmptyObj]} \cup {[given |-> TRUE, obj |-> o] : o \in OptionObjects}

\* a buggy spread order: the defaults written after ...options
generateResponse_defaultsLast(emailId, options) ==
    [method |-> "POST", url |-> "/responses/generate",
     data |-> ObjectSpread(IF options.given THEN options.obj ELSE EmptyObj,
                           [email_id |-> emailId, use_rag |-> TRUE])]

\* generateResponse: post { email_id: emailId, use_rag: true, ...options }
generateResponse(emailId, options) ==
    [method |-> "POST", url |-> "/responses/generate",
     data |-> ObjectSpread([email_id |-> emailId, use_rag |-> TRUE],
                           IF options.given THEN options.obj ELSE EmptyObj)]

NoRequest == [method |-> "none", url |-> "none", data |-> EmptyObj]

InitGenerate ==
    /\ job = [t \in TaskIds |-> "absent"]
    /\ cancelledFrom = [t \in TaskIds |-> "none"]
    /\ call = [s \in Slots |-> IdleCall]
    /\ activeTasks = EmptyMap
    /\ taskHistory = <<>>
    /\ notifications = <<>>
    /\ stream = StreamIdle
    /\ gen \in [1..MaxCalls ->
                  {[emailId |-> e, options |-> o, request |-> NoRequest] :
                      e \in EmailIds, o \in OptionArgs}]
    /\ AuthAtRest /\ EngineAtRest /\ CacheAtRest /\ QueryAtRest

\* apiService.generateResponse(emailId, options) posts its request
GenerateResponse(i) ==
    /\ gen[i].request = NoRequest
    /\ gen' = [gen EXCEPT ![i].request = generateResponse(gen[i].emailId, gen[i].options)]
    /\ UNCHANGED <<job, cancelledFrom, call, activeTasks, taskHistory, notifications, stream,
                   authVars, engine, cacheVars, query>>

NextGenerate == \E i \in 1..MaxCalls : GenerateResponse(i)

SpecGenerate == InitGenerate /\ [][NextGenerate]_vars

Posted(i) == gen[i].request # NoRequest

\* the use_rag the caller's options ask for: options.use_rag when set, else the default
RequestedUseRag(options) ==
    IF options.given /\ "use_rag" \in DOMAIN options.obj THEN options.obj["use_rag"] ELSE TRUE

----------------------------------------------------------------------------
(* SpecAuth: ApiService authentication and the AuthProvider *)

Tokens == {"token-1"}

\* the users an auth status response may name
Users == {"user-1", "user-2"}

\* the statuses the backend answers an auth request with
HttpStatuses == {200, 401, 403}

\* axios rejects every response outside 2xx, and every request without a response
IsErrorStatus(status) == status = NoResponse \/ status >= 400

\* setAuthToken(token)
setAuthToken(a, token) == [a EXCEPT !.authToken = token, !.stored = token]

\* clearAuth()
clearAuth(a) == [a EXCEPT !.authToken = Null, !.stored = Null]

\* the values an if (...) test of a token takes as false: null and the empty string
Falsy == {Null, ""}

\* loadAuthToken(), run by the constructor on a fresh ApiService
loadAuthToken(stored) == IF stored \notin Falsy THEN stored ELSE Null

\* request interceptor: the token of the Authorization header, Null when the
\* request carries no such header
requestInterceptor(a) == IF a.authToken \notin Falsy THEN a.authToken ELSE Null

\* an interceptor that treats every refusal (401 and 403) as a lost session
interceptor_clearsAuth_onRefusal(status) == status = 401 \/ status = 403

\* response interceptor: the test for an authentication error
interceptor_clearsAuth(status) == status = 401

\* response interceptor, error handler: ApiService state after an error with this status
responseInterceptor(a, status) ==
    IF interceptor_clearsAuth(status)
    THEN [clearAuth(a) EXCEPT !.href = "/login"]
    ELSE a

\* the state both branches of logout() set
LoggedOut == [isAuthenticated |-> FALSE, user |-> Null, isLoading |-> FALSE, error |-> Null]

\* logout(): the state set after apiService.logout() resolved
logout_then(prev) == LoggedOut

\* a catch branch that only ends the loading state
logout_catch_keepsSession(prev) == [prev EXCEPT !.isLoading = FALSE]

\* logout(): the state set in the catch branch
logout_catch(prev) == LoggedOut

\* a checkAuthStatus whose catch branch reports the error and nothing else
checkAuthStatus_state_catchOnlyReports(prev, outcome, authed, user) ==
    IF outcome = "resolved"
    THEN IF authed
         THEN [isAuthenticated |-> TRUE, user |-> user, isLoading |-> FALSE, error |-> Null]
         ELSE [isAuthenticated |-> FALSE, user |-> Null, isLoading |-> FALSE, error |-> Null]
    ELSE [prev EXCEPT !.error = "Failed to check authentication status"]

\* checkAuthStatus(): the state set for each outcome of apiService.getAuthStatus()
checkAuthStatus_state(prev, outcome, authed, user) ==
    IF outcome = "resolved"
    THEN IF authed
         THEN [isAuthenticated |-> TRUE, user |-> user, isLoading |-> FALSE, error |-> Null]
         ELSE [isAuthenticated |-> FALSE, user |-> Null, isLoading |-> FALSE, error |-> Null]
    ELSE [isAuthenticated |-> FALSE, user |-> Null, isLoading |-> FALSE,
          error |-> "Failed to check authentication status"]

\* the record of a call that has run to its end: how the request ended is kept
Completed(c) ==
    [AuthCallIdle EXCEPT !.status = c.status, !.outcome = c.outcome, !.completed = TRUE]

\* a caller stores a token
SetAuthToken(token) ==
    /\ apiAuth' = setAuthToken(apiAuth, token)
    /\ UNCHANGED <<taskVars, authState, authCall, engine, cacheVars, query>>

\* an auth call starts: the state update before the await, and the request leaves
\* with the token the request interceptor attaches
AuthRequest(op) ==
    /\ authCall[op].pc = "idle"
    /\ authCall' = [authCall EXCEPT ![op] =
                       [AuthCallIdle EXCEPT !.pc = "sent", !.bearer = requestInterceptor(apiAuth)]]
    /\ authState' = CASE op = "login" -> [authState EXCEPT !.isLoading = TRUE, !.error = Null]
                      [] op = "logout" -> [authState EXCEPT !.isLoading = TRUE]
                      [] OTHER -> authState
    /\ UNCHANGED <<taskVars, apiAuth, engine, cacheVars, query>>

\* the backend answers, or the request ends without a response
AuthServerResponds(op, status, authed) ==
    /\ authCall[op].pc = "sent"
    /\ authed => op = "checkAuthStatus" /\ status = 200
    /\ \E user \in (IF authed THEN Users ELSE {Null}) :
          authCall' = [authCall EXCEPT ![op] =
                          [@ EXCEPT !.pc = "responded", !.status = status,
                                    !.authed = authed, !.user = user]]
    /\ UNCHANGED <<taskVars, authState, apiAuth, engine, cacheVars, query>>

\* the response interceptor runs on the reply
AuthIntercept(op) ==
    /\ authCall[op].pc = "responded"
    /\ IF IsErrorStatus(authCall[op].status)
       THEN /\ apiAuth' = responseInterceptor(apiAuth, authCall[op].status)
            /\ authCall' = [authCall EXCEPT ![op] =
                               [@ EXCEPT !.pc = "settled", !.outcome = "rejected"]]
       ELSE /\ apiAuth' = apiAuth
            /\ authCall' = [authCall EXCEPT ![op] =
                               [@ EXCEPT !.pc = "settled", !.outcome = "resolved"]]
    /\ UNCHANGED <<taskVars, authState, engine, cacheVars, query>>

\* checkAuthStatus() resumes after the await
CheckAuthStatusResume ==
    LET c == authCall["checkAuthStatus"]
    IN  /\ c.pc = "settled"
        /\ authState' = checkAuthStatus_state(authState, c.outcome, c.authed, c.user)
        /\ authCall' = [authCall EXCEPT !["checkAuthStatus"] = Completed(c)]
        /\ UNCHANGED <<taskVars, apiAuth, engine, cacheVars, query>>

\* login() resumes: the redirect to the authorization url, or the catch branch
LoginResume ==
    LET c == authCall["login"]
    IN  /\ c.pc = "settled"
        /\ IF c.outcome = "resolved"
           THEN /\ apiAuth' = [apiAuth EXCEPT !.href = "authorization_url"]
                /\ authState' = authState
           ELSE /\ apiAuth' = apiAuth
                /\ authState' = [authState EXCEPT !.isLoading = FALSE,
                                                  !.error = "Login failed. Please try again."]
        /\ authCall' = [authCall EXCEPT !["login"] = Completed(c)]
        /\ UNCHANGED <<taskVars, engine, cacheVars, query>>

\* logout() resumes: apiService.logout() clears the token after a successful
\* post, then either branch sets the state
LogoutResume ==
    LET c == authCall["logout"]
    IN  /\ c.pc = "settled"
        /\ IF c.outcome = "resolved"
           THEN /\ apiAuth' = clearAuth(apiAuth)
                /\ authState' = logout_then(authState)
           ELSE /\ apiAuth' = apiAuth
                /\ authState' = logout_catch(authState)
        /\ authCall' = [op \in AuthOps |->
                           IF op = "logout" THEN Completed(c)
                           ELSE IF op = "checkAuthStatus" /\ authCall[op].pc # "idle"
                           THEN [authCall[op] EXCEPT !.overtaken = TRUE]
                           ELSE authCall[op]]
        /\ UNCHANGED <<taskVars, engine, cacheVars, query>>

\* clearError()
ClearError ==
    /\ authState' = [authState EXCEPT !.error = Null]
    /\ UNCHANGED <<taskVars, apiAuth, authCall, engine, cacheVars, query>>

\* the page an assignment to window.location.href leads to is loaded: a fresh
\* ApiService reads the stored token, a fresh AuthProvider starts
\* checkAuthStatus, and the calls of the page that was left are gone
PageLoad ==
    /\ apiAuth.href # "/"
    /\ apiAuth' = [authToken |-> loadAuthToken(apiAuth.stored), stored |-> apiAuth.stored,
                   href |-> "/"]
    /\ authState' = AuthStateInitial
    /\ authCall' = [op \in AuthOps |->
                       IF op = "checkAuthStatus"
                       THEN [AuthCallIdle EXCEPT !.pc = "sent",
                                                 !.bearer = loadAuthToken(apiAuth.stored)]
                       ELSE AuthCallIdle]
    /\ UNCHANGED <<taskVars, engine, cacheVars, query>>

\* the application mounts: a stored token, if any, is loaded and checkAuthStatus runs
InitAuth ==
    /\ TasksAtRest /\ EngineAtRest /\ CacheAtRest /\ QueryAtRest
    /\ authState = AuthStateInitial
    /\ \E stored \in Tokens \cup {Null} :
          /\ apiAuth = [authToken |-> loadAuthToken(stored), stored |-> stored, href |-> "/"]
          /\ authCall = [op \in AuthOps |->
                            IF op = "checkAuthStatus"
                            THEN [AuthCallIdle EXCEPT !.pc = "sent",
                                                      !.bearer = loadAuthToken(stored)]
                            ELSE AuthCallIdle]

NextAuth ==
    \/ \E token \in Tokens : SetAuthToken(token)
    \/ \E op \in AuthOps : AuthRequest(op)
    \/ \E op \in AuthOps, status \in HttpStatuses \cup {NoResponse}, authed \in BOOLEAN :
          AuthServerResponds(op, status, authed)
    \/ \E op \in AuthOps : AuthIntercept(op)
    \/ CheckAuthStatusResume
    \/ LoginResume
    \/ LogoutResume
    \/ ClearError
    \/ PageLoad

SpecAuth == InitAuth /\ [][NextAuth]_vars

----------------------------------------------------------------------------
(* Properties of the authentication (SpecAuth) *)

\* logout() completes in this step
LogoutCompletes == ~authCall["logout"].completed /\ authCall'["logout"].completed

\* C11: when logout() completes, whether apiService.logout() resolved or was
\* rejected, the AuthState is: isAuthenticated false, user null, isLoading
\* false, error null
C11_LogoutClearsState ==
    [][LogoutCompletes =>
          /\ authState'.isAuthenticated = FALSE
          /\ authState'.user = Null
          /\ authState'.isLoading = FALSE
          /\ authState'.error = Null]_vars

\* a logout whose request failed has completed, from a session that was authenticated
C11_Witness ==
    /\ authCall["logout"].completed
    /\ authCall["logout"].outcome = "rejected"
    /\ authCall["logout"].status = 403
    /\ authState = LoggedOut

\* the response interceptor handles the reply of op in this step
Intercepted(op) == authCall[op].pc = "responded" /\ authCall'[op].pc = "settled"

\* C12: a response with status 401 clears the token in memory and in
\* localStorage, redirects to /login and is still rejected to the caller; an
\* error with any other status is rejected and leaves the token unchanged
C12_UnauthorizedClearsAuth ==
    [][\A op \in AuthOps :
          Intercepted(op) =>
             /\ authCall[op].status = 401 =>
                   /\ apiAuth'.authToken = Null
                   /\ apiAuth'.stored = Null
                   /\ apiAuth'.href = "/login"
                   /\ authCall'[op].outcome = "rejected"
             /\ (IsErrorStatus(authCall[op].status) /\ authCall[op].status # 401) =>
                   /\ apiAuth'.authToken = apiAuth.authToken
                   /\ apiAuth'.stored = apiAuth.stored
                   /\ authCall'[op].outcome = "rejected"]_vars

\* a request sent with a token was answered 401, and the token is gone
C12_Witness ==
    \E op \in AuthOps :
       /\ authCall[op].pc = "settled"
       /\ authCall[op].status = 401
       /\ authCall[op].bearer \in Tokens
       /\ authCall[op].outcome = "rejected"
       /\ apiAuth.authToken = Null
       /\ apiAuth.stored = Null
       /\ apiAuth.href = "/login"

----------------------------------------------------------------------------
(* SpecEngine: one GenerateResponse job of the backend, run by the response  *)
(* generation engine (design document, sections 4.1 and 4.2), and the poll   *)
(* loop of useGenerateResponse watching it                                   *)

\* the longest a job may run, in clock ticks
MaxDuration == 2

\* confidence scores in [0,1] are kept in thirds: 0..ConfidenceScale
ConfidenceScale == 3

\* the task id the submission is answered with
EngineTask == 1

\* the hook that submits the job
EngineHook == "useGenerateResponse"

ConfidenceLevels == 0..ConfidenceScale

\* strategy-acceptance-threshold
AcceptanceThreshold == 2

\* the fixed low confidence of the Template fallback
TemplateConfidence == 1

\* length bound of the quality validation, in words
MaxDraftLen == 3

\* an unresolved template placeholder
Placeholder == "{name}"

\* drafts composed from retrieved passages: empty, within bounds, too long
RagTexts == {<<>>, <<"Friday", "works">>, <<"Friday", "works", "for", "everyone">>}

\* rule templates after substitution: empty, resolved, with a placeholder left
RuleTexts == {<<>>, <<"Noted">>, <<"Dear", "{name}">>}

\* the generic acknowledgment
TemplateText == <<"Thank", "you">>

Strategies == {"RAG", "Rule", "Hybrid", "Template"}

\* quality validation: non-empty, within the length bound, no placeholder left
QualityValid(text) ==
    /\ Len(text) > 0
    /\ Len(text) <= MaxDraftLen
    /\ \A i \in 1..Len(text) : text[i] # Placeholder

Draft(text, strategy, confidence) ==
    [text |-> text, strategy |-> strategy, confidence |-> confidence]

\* an acceptance test that wants the confidence above the threshold, not at it
Clears_strictly(d) == d.confidence > AcceptanceThreshold /\ QualityValid(d.text)

\* a draft is returned when its confidence reaches the threshold and it passes
\* the quality validation
Clears(d) == d.confidence >= AcceptanceThreshold /\ QualityValid(d.text)

\* Hybrid: the rule template with retrieved specifics in its slots
Merge(template, specifics) ==
    [i \in 1..Len(template) |->
        IF template[i] = Placeholder /\ specifics # <<>> THEN specifics[1] ELSE template[i]]

\* the confidences a weighted combination of a and b can give
Combined(a, b) == {c \in ConfidenceLevels : (a <= c /\ c <= b) \/ (b <= c /\ c <= a)}

\* a fallback that answers with nothing
TemplateDraft_noText == Draft(<<>>, "Template", TemplateConfidence)

\* a fallback that carries no confidence score
TemplateDraft_unscored == Draft(TemplateText, "Template", 0)

\* Template fallback: always succeeds
TemplateDraft == Draft(TemplateText, "Template", TemplateConfidence)

\* the job has used up its maximum duration
TimedOut(elapsed) == elapsed >= MaxDuration

Running == job[EngineTask] = "STARTED"

\* the worker picks the job up and the engine starts with the RAG strategy
EngineStart ==
    /\ job[EngineTask] = "PENDING"
    /\ job' = [job EXCEPT ![EngineTask] = "STARTED"]
    /\ engine' = [engine EXCEPT !.stage = "RAG"]
    /\ UNCHANGED <<cancelledFrom, call, activeTasks, taskHistory, notifications, stream, gen,
                   authVars, cacheVars, query>>

\* RAG strategy: the retriever fails, finds nothing above the similarity
\* threshold, or gives context from which a draft is composed
TryRAG(outcome, confidence, text) ==
    /\ Running
    /\ engine.stage = "RAG"
    /\ outcome # "context" => confidence = 0 /\ text = <<>>
    /\ LET d == Draft(text, "RAG", confidence)
       IN  engine' = IF outcome = "context" /\ Clears(d)
                     THEN [engine EXCEPT !.rag = [outcome |-> outcome, confidence |-> confidence,
                                                  text |-> text],
                                         !.draft = d, !.stage = "composed"]
                     ELSE [engine EXCEPT !.rag = [outcome |-> outcome, confidence |-> confidence,
                                                  text |-> text],
                                         !.stage = "Rule"]
    /\ UNCHANGED <<taskVars, authVars, cacheVars, query>>

\* Rule strategy: the first matching rule, if any
TryRule(outcome, confidence, text) ==
    /\ Running
    /\ engine.stage = "Rule"
    /\ outcome # "match" => confidence = 0 /\ text = <<>>
    /\ LET d == Draft(text, "Rule", confidence)
           r == [outcome |-> outcome, confidence |-> confidence, text |-> text]
       IN  engine' = IF outcome = "match" /\ Clears(d)
                     THEN [engine EXCEPT !.rule = r, !.draft = d, !.stage = "composed"]
                     ELSE IF outcome = "match" /\ engine.rag.outcome = "context"
                     THEN [engine EXCEPT !.rule = r, !.stage = "Hybrid"]
                     ELSE [engine EXCEPT !.rule = r, !.stage = "Template"]
    /\ UNCHANGED <<taskVars, authVars, cacheVars, query>>

\* Hybrid strategy: attempted when RAG gave some context and a rule matched
TryHybrid(confidence) ==
    /\ Running
    /\ engine.stage = "Hybrid"
    /\ confidence \in Combined(engine.rag.confidence, engine.rule.confidence)
    /\ LET d == Draft(Merge(engine.rule.text, engine.rag.text), "Hybrid", confidence)
       IN  engine' = IF Clears(d)
                     THEN [engine EXCEPT !.draft = d, !.stage = "composed"]
                     ELSE [engine EXCEPT !.stage = "Template"]
    /\ UNCHANGED <<taskVars, authVars, cacheVars, query>>

\* Template fallback
TryTemplate ==
    /\ Running
    /\ engine.stage = "Template"
    /\ engine' = [engine EXCEPT !.draft = TemplateDraft, !.stage = "composed"]
    /\ UNCHANGED <<taskVars, authVars, cacheVars, query>>

\* the worker records the draft: the job is SUCCESS and the result is visible
Finalize ==
    /\ Running
    /\ engine.stage = "composed"
    /\ job' = [job EXCEPT ![EngineTask] = "SUCCESS"]
    /\ engine' = [engine EXCEPT !.result = engine.draft, !.stage = "done"]
    /\ UNCHANGED <<cancelledFrom, call, activeTasks, taskHistory, notifications, stream, gen,
                   authVars, cacheVars, query>>

\* time passes for a running job
Tick ==
    /\ Running
    /\ ~TimedOut(engine.elapsed)
    /\ engine' = [engine EXCEPT !.elapsed = @ + 1]
    /\ UNCHANGED <<taskVars, authVars, cacheVars, query>>

\* the job exceeds its maximum duration and is finalized as FAILURE, Timeout
Timeout ==
    /\ Running
    /\ TimedOut(engine.elapsed)
    /\ job' = [job EXCEPT ![EngineTask] = "FAILURE"]
    /\ engine' = [engine EXCEPT !.elapsed = @ + 1, !.error = "Timeout", !.stage = "stopped"]
    /\ UNCHANGED <<cancelledFrom, call, activeTasks, taskHistory, notifications, stream, gen,
                   authVars, cacheVars, query>>

InitEngine == TasksAtRest /\ AuthAtRest /\ EngineAtRest /\ CacheAtRest /\ QueryAtRest

\* what the worker does
Worker ==
    \/ EngineStart
    \/ \E o \in {"unavailable", "nothing", "context"}, c \in ConfidenceLevels, t \in RagTexts :
          TryRAG(o, c, t)
    \/ \E o \in {"none", "match"}, c \in ConfidenceLevels, t \in RuleTexts : TryRule(o, c, t)
    \/ \E c \in ConfidenceLevels : TryHybrid(c)
    \/ TryTemplate
    \/ Finalize

NextEngine ==
    \/ Mutate(EngineTask, EngineHook)
    \/ ServerAccept(EngineTask)
    \/ ServerReject(EngineTask)
    \/ OnSuccess(EngineTask)
    \/ OnError(EngineTask)
    \/ TimerFires(EngineTask)
    \/ ServerStatus(EngineTask)
    \/ RequestFails(EngineTask)
    \/ PollTask(EngineTask)
    \/ Worker
    \/ Tick
    \/ Timeout
    \/ Cancel(EngineTask)
    \/ Evict(EngineTask)

\* workers make progress and time passes
SpecEngine ==
    /\ InitEngine /\ [][NextEngine]_vars
    /\ WF_vars(Worker) /\ WF_vars(Tick) /\ WF_vars(Timeout)

\* workers may hang; time passes, timers fire, requests end, callbacks run
SpecTimeout ==
    /\ InitEngine /\ [][NextEngine]_vars
    /\ WF_vars(Tick) /\ WF_vars(Timeout)
    /\ WF_vars(OnSuccess(EngineTask))
    /\ WF_vars(TimerFires(EngineTask))
    /\ WF_vars(ServerStatus(EngineTask) \/ RequestFails(EngineTask))
    /\ WF_vars(PollTask(EngineTask))

----------------------------------------------------------------------------
(* Properties of the generation job (SpecEngine, SpecTimeout) *)

C14_RagAboveThresholdReturned ==
    (/\ job[EngineTask] = "SUCCESS"
     /\ engine.rag.outcome = "context"
     /\ engine.rag.confidence >= AcceptanceThreshold)
    => engine.result.strategy = "RAG"

\* C14, amended: when the RAG confidence reaches the threshold and the RAG
\* draft passes the quality validation, the draft composed and returned is
\* the RAG draft
C14_ValidRagAboveThresholdReturned ==
    (/\ engine.stage \in {"composed", "done"}
     /\ engine.rag.outcome = "context"
     /\ engine.rag.confidence >= AcceptanceThreshold
     /\ QualityValid(engine.rag.text))
    => /\ engine.draft.strategy = "RAG"
       /\ job[EngineTask] = "SUCCESS" => engine.result.strategy = "RAG"

\* a RAG draft exactly at the threshold was returned
C14_Witness ==
    /\ job[EngineTask] = "SUCCESS"
    /\ engine.rag.confidence = AcceptanceThreshold
    /\ engine.result.strategy = "RAG"

Polling == call[EngineTask].pc \in {"timer", "request", "response"}

\* C16: a job that exceeds the maximum duration is FAILURE with error Timeout;
\* no job stays STARTED forever, and a poll loop watching a STARTED job ends
C16_TimeoutEndsRunning ==
    /\ [](engine.elapsed > MaxDuration =>
             /\ job[EngineTask] \in {"FAILURE", "evicted"}
             /\ engine.error = "Timeout")
    /\ (job[EngineTask] = "STARTED") ~> (job[EngineTask] # "STARTED")
    /\ (job[EngineTask] = "STARTED" /\ Polling) ~> (call[EngineTask].pc = "done")

\* the job timed out and the poll loop saw the failure and stopped
C16_Witness ==
    /\ job[EngineTask] = "FAILURE"
    /\ engine.error = "Timeout"
    /\ engine.elapsed > MaxDuration
    /\ call[EngineTask].pc = "done"
    /\ call[EngineTask].snap = "FAILURE"

----------------------------------------------------------------------------
(* SpecUpdate: useUpdateEmail, its optimistic update and its rollback *)

\* number of useUpdateEmail mutations in one run
MaxUpdates == 1

\* the properties of an EmailMessage the updates touch
Fields == {"is_read", "is_starred"}

Emails == [Fields -> BOOLEAN]

\* Partial<EmailMessage>
Updates == UNION {[F -> BOOLEAN] : F \in SUBSET Fields}

\* a cache entry holding data, as setQueryData leaves it
Entry(data) == [present |-> TRUE, stale |-> FALSE, data |-> data]

\* queryClient.getQueryData(key)
getQueryData(cache, key) == cache[key]

\* onMutate: setQueryData(detail(emailId), old => ({ ...old, ...updates }))
onMutate_detail(old, updates) == Entry(ObjectSpread(old.data, updates))

\* onMutate: setQueriesData(lists(), old => old ? { ...old, emails: old.emails.map(...) } : old)
onMutate_lists(old, emailId, updates) ==
    IF ~old.present
    THEN old
    ELSE Entry([id \in DOMAIN old.data |->
                  IF id = emailId THEN ObjectSpread(old.data[id], updates) ELSE old.data[id]])

\* onError: if (context?.previousEmail) setQueryData(detail(emailId), context.previousEmail)
onError_detail(current, previousEmail) ==
    IF previousEmail.present THEN Entry(previousEmail.data) ELSE current

\* queryClient.invalidateQueries: an entry that exists is marked invalidated
invalidateQueries(entry) == IF entry.present THEN [entry EXCEPT !.stale = TRUE] ELSE entry

\* mutate({ emailId, updates }) as mutation m: onMutate snapshots the detail
\* entry and writes the optimistic values, then mutationFn sends the request;
\* a mutation that starts while no other is under way is mutation 1
UpdateMutate(m, emailId, updates) ==
    /\ update[m].pc = "idle"
    /\ m # 1 => update[1].pc # "idle"
    /\ Len(notifications) < MaxUpdates
    /\ update' = [update EXCEPT ![m] =
                     [pc |-> "request", emailId |-> emailId, updates |-> updates,
                      before |-> queryCache.detail[emailId],
                      previousEmail |-> getQueryData(queryCache.detail, emailId)]]
    /\ queryCache' = [detail |-> [queryCache.detail EXCEPT
                                     ![emailId] = onMutate_detail(@, updates)],
                      lists |-> onMutate_lists(queryCache.lists, emailId, updates)]
    /\ UNCHANGED <<taskVars, authVars, engine, query>>

\* PUT /emails/{id} succeeds
UpdateResolves(m) ==
    /\ update[m].pc = "request"
    /\ update' = [update EXCEPT ![m].pc = "resolved"]
    /\ UNCHANGED <<taskVars, authVars, engine, queryCache, query>>

\* PUT /emails/{id} fails
UpdateRejects(m) ==
    /\ update[m].pc = "request"
    /\ update' = [update EXCEPT ![m].pc = "rejected"]
    /\ UNCHANGED <<taskVars, authVars, engine, queryCache, query>>

\* onSuccess: the notification
UpdateOnSuccess(m) ==
    /\ update[m].pc = "resolved"
    /\ notifications' = ADD_NOTIFICATION(notifications,
                            Notice("success", "Email updated", NoTask))
    /\ update' = [update EXCEPT ![m].pc = "succeeded"]
    /\ UNCHANGED <<job, cancelledFrom, call, activeTasks, taskHistory, stream, gen,
                   authVars, engine, queryCache, query>>

\* onError: the rollback and the notification
UpdateOnError(m) ==
    /\ update[m].pc = "rejected"
    /\ queryCache' = [queryCache EXCEPT
                         !.detail[update[m].emailId] =
                             onError_detail(@, update[m].previousEmail)]
    /\ notifications' = ADD_NOTIFICATION(notifications,
                            Notice("error", "Failed to update email", NoTask))
    /\ update' = [update EXCEPT ![m].pc = "rolledBack"]
    /\ UNCHANGED <<job, cancelledFrom, call, activeTasks, taskHistory, stream, gen,
                   authVars, engine, query>>

\* onSettled: the detail entry and the lists are invalidated
UpdateOnSettled(m) ==
    /\ update[m].pc \in {"succeeded", "rolledBack"}
    /\ queryCache' = [detail |-> [queryCache.detail EXCEPT
                                     ![update[m].emailId] = invalidateQueries(@)],
                      lists |-> invalidateQueries(queryCache.lists)]
    /\ update' = [update EXCEPT ![m] = [UpdateIdle EXCEPT !.emailId = update[m].emailId]]
    /\ UNCHANGED <<taskVars, authVars, engine, query>>

\* the cache before the mutation: each detail entry fetched or not, the list fetched or not
InitUpdate ==
    /\ TasksAtRest /\ AuthAtRest /\ EngineAtRest /\ QueryAtRest
    /\ update = [m \in UpdateSlots |-> UpdateIdle]
    /\ \E detail \in [CachedEmailIds -> {Undefined} \cup {Entry(e) : e \in Emails}],
          listed \in BOOLEAN :
          queryCache = [detail |-> detail,
                        lists |-> IF listed
                                  THEN Entry([id \in CachedEmailIds |->
                                                [f \in Fields |-> FALSE]])
                                  ELSE Undefined]

NextUpdate ==
    \/ \E m \in UpdateSlots, e \in CachedEmailIds, u \in Updates : UpdateMutate(m, e, u)
    \/ \E m \in UpdateSlots : UpdateResolves(m)
    \/ \E m \in UpdateSlots : UpdateRejects(m)
    \/ \E m \in UpdateSlots : UpdateOnSuccess(m)
    \/ \E m \in UpdateSlots : UpdateOnError(m)
    \/ \E m \in UpdateSlots : UpdateOnSettled(m)

SpecUpdate == InitUpdate /\ [][NextUpdate]_vars

----------------------------------------------------------------------------
(* Properties of useUpdateEmail (SpecUpdate) *)

\* C17: after onError the detail entry of the email is what it was before the
\* mutation started: the same data, or no entry if there was none
C17_RollbackRestoresDetail ==
    \A m \in UpdateSlots :
       update[m].pc = "rolledBack" =>
          LET now == queryCache.detail[update[m].emailId]
          IN  /\ now.present = update[m].before.present
              /\ now.data = update[m].before.data

----------------------------------------------------------------------------
(* SpecQuery: one fetch of a list query and its retries *)

\* the failure count at which the fetch loop of the model gives up whatever
\* the retry predicate says
MaxFailures == 5

ListQueries == {"useEmails", "useClients", "useResponses"}

\* failureCount < 3
RetryLimit == 3

ErrorTitle(h) ==
    CASE h = "useEmails" -> "Failed to load emails"
      [] h = "useClients" -> "Failed to load clients"
      [] h = "useResponses" -> "Failed to load responses"

\* how a fetch can fail: no response, or an error status
FetchErrors == {NoResponse} \cup {st \in HttpStatuses : IsErrorStatus(st)}

\* a predicate that allows one more attempt
retry_throughLimit(failureCount, status) ==
    IF status = 401 THEN FALSE ELSE failureCount <= RetryLimit

\* retry: (failureCount, error) => ..., the same in the three hooks
retry(failureCount, status) ==
    IF status = 401 THEN FALSE ELSE failureCount < RetryLimit

\* the query is mounted and queryFn runs
QueryFetch(h) ==
    /\ query.pc = "idle"
    /\ query' = [QueryIdle EXCEPT !.hook = h, !.pc = "fetching"]
    /\ UNCHANGED <<taskVars, authVars, engine, cacheVars>>

\* queryFn resolves
QueryResolves ==
    /\ query.pc = "fetching"
    /\ query' = [query EXCEPT !.pc = "success"]
    /\ UNCHANGED <<taskVars, authVars, engine, cacheVars>>

\* queryFn rejects
QueryRejects(status) ==
    /\ query.pc = "fetching"
    /\ query' = [query EXCEPT !.pc = "rejected", !.errors = Append(@, status)]
    /\ UNCHANGED <<taskVars, authVars, engine, cacheVars>>

\* the query asks retry(failureCount, error): another attempt with the count
\* raised, or the query ends in error and onError raises the notification
QueryRetry ==
    /\ query.pc = "rejected"
    /\ IF /\ retry(query.failureCount, query.errors[Len(query.errors)])
          /\ query.failureCount < MaxFailures
       THEN /\ query' = [query EXCEPT !.pc = "fetching", !.failureCount = @ + 1,
                                      !.retries = @ + 1]
            /\ UNCHANGED notifications
       ELSE /\ query' = [query EXCEPT !.pc = "error"]
            /\ notifications' = ADD_NOTIFICATION(notifications,
                                    Notice("error", ErrorTitle(query.hook), NoTask))
    /\ UNCHANGED <<job, cancelledFrom, call, activeTasks, taskHistory, stream, gen,
                   authVars, engine, cacheVars>>

InitQuery == TasksAtRest /\ AuthAtRest /\ EngineAtRest /\ CacheAtRest /\ QueryAtRest

NextQuery ==
    \/ \E h \in ListQueries : QueryFetch(h)
    \/ QueryResolves
    \/ \E status \in FetchErrors : QueryRejects(status)
    \/ QueryRetry

SpecQuery == InitQuery /\ [][NextQuery]_vars

----------------------------------------------------------------------------
(* Properties of the list queries (SpecQuery) *)

LastError == query.errors[Len(query.errors)]

\* C18: a retry follows only an error that is not a 401, and only while
\* failureCount < 3; the fetch is given up only on a 401 or at failureCount 3;
\* so a fetch is retried at most 3 times and no attempt follows a 401
C18_RetryPolicy ==
    /\ [][/\ query'.retries > query.retries =>
                LastError # 401 /\ query.failureCount < 3
          /\ (query.pc = "rejected" /\ query'.pc = "error") =>
                LastError = 401 \/ query.failureCount >= 3]_vars
    /\ [](query.retries <= 3)
    /\ [](\A i \in 1..Len(query.errors) : query.errors[i] = 401 => i = Len(query.errors))

\* a fetch was given up after three retries, and another at once on a 401
C18_Witness ==
    /\ query.pc = "error"
    /\ query.retries = 3
    /\ Len(query.errors) = 4
    /\ \A i \in 1..4 : query.errors[i] # 401
    /\ Len(notifications) = 1

----------------------------------------------------------------------------
(* Properties of UPDATE_TASK (SpecReducer) *)

\* C19: UPDATE_TASK(payload) with status SUCCESS or FAILURE leaves
\* payload.task_id out of activeTasks and puts payload first in taskHistory,
\* the earlier entries following in their order; with any other status it maps
\* payload.task_id to payload in activeTasks and leaves taskHistory unchanged
C19_UpdateTaskEffect ==
    [][\A p \in Payloads :
          Dispatch_UPDATE_TASK(p) =>
             IF p.status = "SUCCESS" \/ p.status = "FAILURE"
             THEN /\ p.task_id \notin DOMAIN activeTasks'
                  /\ Len(taskHistory') = Len(taskHistory) + 1
                  /\ taskHistory'[1] = p
                  /\ \A i \in 1..Len(taskHistory) : taskHistory'[i + 1] = taskHistory[i]
             ELSE /\ p.task_id \in DOMAIN activeTasks'
                  /\ activeTasks'[p.task_id] = p
                  /\ taskHistory' = taskHistory
      ]_vars

\* two tasks have finished one after the other, and a cancelled one is recorded as active
C19_Witness ==
    /\ Len(taskHistory) >= 2
    /\ taskHistory[1] = TaskStatus(2, "FAILURE")
    /\ taskHistory[2] = TaskStatus(1, "SUCCESS")
    /\ 1 \in DOMAIN activeTasks
    /\ activeTasks[1] = TaskStatus(1, "REVOKED")

----------------------------------------------------------------------------
(* SpecHistory: updateTaskStatus on a task history that is nearly full *)

\* number of finished tasks reported beyond a full history
MaxOverflow == 2

\* the length the history is kept to
HistoryLimit == HistoryKeep + 1

\* the task state after updateTaskStatus(taskStatus)
updateTaskStatus(st, taskStatus) ==
    [activeTasks |-> UPDATE_TASK_activeTasks(st.activeTasks, taskStatus),
     taskHistory |-> UPDATE_TASK_taskHistory(st.taskHistory, taskStatus),
     notifications |-> updateTaskStatus_notifications(st.notifications, taskStatus)]

\* the task state after tasks 1..n have been reported as succeeded, one by one,
\* by updateTaskStatus: newest first, one "Task Completed" notification each
AfterUpdates(n) ==
    [activeTasks |-> EmptyMap,
     taskHistory |-> [i \in 1..n |-> TaskStatus(n + 1 - i, "SUCCESS")],
     notifications |-> [i \in 1..n |->
                          [type |-> "success", title |-> "Task Completed",
                           task |-> n + 1 - i, read |-> FALSE]]]

\* the id of the next task: one notification has been raised per finished task
NextTaskId == Len(notifications) + 1

\* updateTaskStatus(taskStatus) for the next task
UpdateTaskStatus(status) ==
    LET after == updateTaskStatus(
                    [activeTasks |-> activeTasks, taskHistory |-> taskHistory,
                     notifications |-> notifications],
                    TaskStatus(NextTaskId, status))
    IN  /\ NextTaskId <= HistoryLimit + MaxOverflow
        /\ activeTasks' = after.activeTasks
        /\ taskHistory' = after.taskHistory
        /\ notifications' = after.notifications
        /\ UNCHANGED <<job, cancelledFrom, call, stream, gen, authVars, engine, cacheVars, query>>

InitHistory ==
    /\ job = [t \in TaskIds |-> "absent"]
    /\ cancelledFrom = [t \in TaskIds |-> "none"]
    /\ call = [s \in Slots |-> IdleCall]
    /\ stream = StreamIdle
    /\ gen = GenIdle
    /\ AuthAtRest /\ EngineAtRest /\ CacheAtRest /\ QueryAtRest
    /\ \E n \in (HistoryLimit - MaxOverflow - 1)..HistoryLimit :
          /\ activeTasks = AfterUpdates(n).activeTasks
          /\ taskHistory = AfterUpdates(n).taskHistory
          /\ notifications = AfterUpdates(n).notifications

NextHistory ==
    \/ \E status \in {"STARTED", "SUCCESS", "FAILURE"} : UpdateTaskStatus(status)
    \/ Dispatch_CLEAR_COMPLETED_TASKS

SpecHistory == InitHistory /\ [][NextHistory]_vars

\* C20: taskHistory never holds more than 50 entries, and a terminal
\* UPDATE_TASK at a full history drops the oldest entry and keeps the newest
\* 49 behind the new one
C20_HistoryBounded ==
    /\ [](Len(taskHistory) <= 50)
    /\ [][(Len(taskHistory) = 50 /\ taskHistory' # taskHistory /\ taskHistory' # <<>>) =>
             /\ Len(taskHistory') = 50
             /\ taskHistory'[1].task_id = NextTaskId
             /\ \A i \in 1..49 : taskHistory'[i + 1] = taskHistory[i]
             /\ \A i \in 1..50 : taskHistory'[i] # taskHistory[50]
         ]_vars

\* two tasks have finished at a full history: the two oldest entries are gone
C20_Witness ==
    /\ Len(taskHistory) = 50
    /\ taskHistory[1].task_id = 52
    /\ taskHistory[50].task_id = 3

----------------------------------------------------------------------------
(* SpecNotify: the notification actions of appReducer on a list that is
   nearly full or nearly empty *)

\* the length the notification list is kept to
NotificationLimit == NotificationKeep + 1

\* the ids Math.random().toString(36).substr(2, 9) may give; two notifications
\* may get the same one
NotificationIds == {"id-a", "id-b"}

\* what is dispatched with ADD_NOTIFICATION; task numbers the payload in the
\* order of the dispatches, standing for its message
NotificationPayloads(serial) ==
    {Notice("success", "Task Completed", serial), Notice("error", "Task Failed", serial)}

\* the notification ADD_NOTIFICATION builds from its payload and a fresh id
Notification(payload, id) ==
    [type |-> payload.type, title |-> payload.title, task |-> payload.task,
     id |-> id, read |-> FALSE]

\* a reducer that keeps 100 earlier notifications behind the new one
ADD_NOTIFICATION_id_keeps100(notifs, payload, id) ==
    <<Notification(payload, id)>> \o slice(notifs, NotificationKeep + 1)

\* case 'ADD_NOTIFICATION', with the id it draws
ADD_NOTIFICATION_id(notifs, payload, id) ==
    <<Notification(payload, id)>> \o slice(notifs, NotificationKeep)

\* case 'MARK_NOTIFICATION_READ'
MARK_NOTIFICATION_READ(notifs, id) ==
    [i \in 1..Len(notifs) |->
        IF notifs[i].id = id
        THEN [type |-> notifs[i].type, title |-> notifs[i].title, task |-> notifs[i].task,
              id |-> notifs[i].id, read |-> TRUE]
        ELSE notifs[i]]

\* case 'CLEAR_NOTIFICATIONS'
CLEAR_NOTIFICATIONS(notifs) == <<>>

\* the list after n ADD_NOTIFICATION dispatches, newest first, the ids drawn in turn
AfterNotifications(n) ==
    [i \in 1..n |->
        Notification(Notice("success", "Task Completed", n + 1 - i),
                     IF (n + 1 - i) % 2 = 0 THEN "id-a" ELSE "id-b")]

\* the number of the next payload
NextSerial == IF notifications = <<>> THEN 1 ELSE notifications[1].task + 1

\* dispatch({ type: 'ADD_NOTIFICATION', payload }); followed on a list of fewer
\* than MaxOverflow entries and up to MaxOverflow dispatches beyond a full list
Dispatch_ADD_NOTIFICATION(payload, id) ==
    /\ \/ Len(notifications) < MaxOverflow
       \/ /\ Len(notifications) >= NotificationLimit - MaxOverflow
          /\ NextSerial <= NotificationLimit + MaxOverflow
    /\ notifications' = ADD_NOTIFICATION_id(notifications, payload, id)
    /\ UNCHANGED <<job, cancelledFrom, call, activeTasks, taskHistory, stream, gen,
                   authVars, engine, cacheVars, query>>

\* dispatch({ type: 'MARK_NOTIFICATION_READ', payload: id })
Dispatch_MARK_NOTIFICATION_READ(id) ==
    /\ notifications' = MARK_NOTIFICATION_READ(notifications, id)
    /\ UNCHANGED <<job, cancelledFrom, call, activeTasks, taskHistory, stream, gen,
                   authVars, engine, cacheVars, query>>

\* dispatch({ type: 'CLEAR_NOTIFICATIONS' })
Dispatch_CLEAR_NOTIFICATIONS ==
    /\ notifications' = CLEAR_NOTIFICATIONS(notifications)
    /\ UNCHANGED <<job, cancelledFrom, call, activeTasks, taskHistory, stream, gen,
                   authVars, engine, cacheVars, query>>

InitNotify ==
    /\ job = [t \in TaskIds |-> "absent"]
    /\ cancelledFrom = [t \in TaskIds |-> "none"]
    /\ call = [s \in Slots |-> IdleCall]
    /\ activeTasks = EmptyMap
    /\ taskHistory = <<>>
    /\ stream = StreamIdle
    /\ gen = GenIdle
    /\ AuthAtRest /\ EngineAtRest /\ CacheAtRest /\ QueryAtRest
    /\ \E n \in (NotificationLimit - MaxOverflow)..NotificationLimit :
          notifications = AfterNotifications(n)

NextNotify ==
    \/ \E p \in NotificationPayloads(NextSerial), id \in NotificationIds :
          Dispatch_ADD_NOTIFICATION(p, id)
    \/ \E id \in NotificationIds : Dispatch_MARK_NOTIFICATION_READ(id)
    \/ Dispatch_CLEAR_NOTIFICATIONS

SpecNotify == InitNotify /\ [][NextNotify]_vars

\* C21: notifications never holds more than 100 entries; every
\* ADD_NOTIFICATION puts the new notification first with read = FALSE, the
\* earlier ones following in their order; MARK_NOTIFICATION_READ keeps the
\* list's length and order and changes nothing but the read flag of the
\* notifications that have the given id
C21_NotificationsBounded ==
    /\ [](Len(notifications) <= 100)
    /\ [][\A p \in NotificationPayloads(NextSerial), id \in NotificationIds :
             Dispatch_ADD_NOTIFICATION(p, id) =>
                /\ notifications'[1].read = FALSE
                /\ notifications'[1].id = id
                /\ notifications'[1].type = p.type
                /\ notifications'[1].title = p.title
                /\ Len(notifications') = (IF Len(notifications) < 100
                                          THEN Len(notifications) + 1 ELSE 100)
                /\ \A i \in 2..Len(notifications') : notifications'[i] = notifications[i - 1]
         ]_vars
    /\ [][\A id \in NotificationIds :
             Dispatch_MARK_NOTIFICATION_READ(id) =>
                /\ Len(notifications') = Len(notifications)
                /\ \A i \in 1..Len(notifications) :
                      /\ notifications'[i].id = notifications[i].id
                      /\ notifications'[i].type = notifications[i].type
                      /\ notifications'[i].title = notifications[i].title
                      /\ notifications'[i].task = notifications[i].task
                      /\ notifications[i].id # id =>
                            notifications'[i].read = notifications[i].read
         ]_vars

\* two notifications were added to a full list and the ones with id "id-a"
\* marked read before the second came: the list is still 100 long, the two
\* oldest are gone, and the newest is unread
C21_Witness ==
    /\ Len(notifications) = 100
    /\ notifications[1].task = 102
    /\ notifications[1].read = FALSE
    /\ notifications[1].id = "id-a"
    /\ notifications[2].read = TRUE
    /\ notifications[2].id = "id-a"
    /\ notifications[3].read = FALSE
    /\ notifications[100].task = 3

----------------------------------------------------------------------------
(* What Index renders for an AuthState (SpecAuth) *)

\* Dashboard: the card or the dashboard content
Dashboard(state) ==
    IF ~state.isAuthenticated THEN "Authentication Required" ELSE "dashboard"

\* an Index that does not wait for the auth check
Index_withoutLoader(state) ==
    IF ~state.isAuthenticated THEN "LoginButton" ELSE Dashboard(state)

\* Index: the loader, the login screen, or Dashboard
Index(state) ==
    IF state.isLoading THEN "loader"
    ELSE IF ~state.isAuthenticated THEN "LoginButton"
    ELSE Dashboard(state)

----------------------------------------------------------------------------
(* Properties of checkAuthStatus and of the stored token (SpecAuth) *)

\* checkAuthStatus() completes in this step
CheckAuthStatusCompletes ==
    ~authCall["checkAuthStatus"].completed /\ authCall'["checkAuthStatus"].completed

\* C23: when checkAuthStatus() completes, isLoading is false whatever the
\* outcome; isAuthenticated is true only if the request resolved and the
\* response said is_authenticated, and user is then the user of the response;
\* error is non-null only if the request was rejected, and then
\* isAuthenticated is false and user is null
C23_CheckAuthStatusOutcomes ==
    [][CheckAuthStatusCompletes =>
          LET c == authCall["checkAuthStatus"]
          IN  /\ authState'.isLoading = FALSE
              /\ authState'.isAuthenticated =>
                    /\ c.outcome = "resolved"
                    /\ c.authed
                    /\ authState'.user = c.user
                    /\ authState'.user \in Users
              /\ authState'.error # Null =>
                    /\ c.outcome = "rejected"
                    /\ authState'.isAuthenticated = FALSE
                    /\ authState'.user = Null
              /\ (c.outcome = "resolved" /\ ~c.authed) =>
                    authState' = [isAuthenticated |-> FALSE, user |-> Null,
                                  isLoading |-> FALSE, error |-> Null]
      ]_vars

\* a status request that failed without a response has completed: the error
\* is reported, nobody is authenticated and loading is over
C23_Witness ==
    /\ authCall["checkAuthStatus"].completed
    /\ authCall["checkAuthStatus"].outcome = "rejected"
    /\ authCall["checkAuthStatus"].status = NoResponse
    /\ authState.error = "Failed to check authentication status"
    /\ authState.isAuthenticated = FALSE
    /\ authState.isLoading = FALSE

----------------------------------------------------------------------------
(* SpecToken: the token of the ApiService under setAuthToken, clearAuth,
   logout, status requests, 401 responses and page loads *)

\* the strings setAuthToken(token: string) is called with
TokenInputs == Tokens \cup {""}

\* the requests followed here
TokenOps == {"checkAuthStatus", "logout"}

\* a caller clears the token
ClearAuth ==
    /\ apiAuth' = clearAuth(apiAuth)
    /\ UNCHANGED <<taskVars, authState, authCall, engine, cacheVars, query>>

NextToken ==
    \/ \E token \in TokenInputs : SetAuthToken(token)
    \/ ClearAuth
    \/ \E op \in TokenOps : AuthRequest(op)
    \/ \E op \in TokenOps, status \in HttpStatuses \cup {NoResponse}, authed \in BOOLEAN :
          AuthServerResponds(op, status, authed)
    \/ \E op \in TokenOps : AuthIntercept(op)
    \/ CheckAuthStatusResume
    \/ LogoutResume
    \/ PageLoad

SpecToken == InitAuth /\ [][NextToken]_vars

\* a request leaves in this step
Sent(op) == authCall[op].pc # "sent" /\ authCall'[op].pc = "sent"

\* C24: authToken always equals the 'auth_token' entry of localStorage, null
\* exactly when there is no entry, and a request that leaves carries an
\* Authorization header exactly when authToken is not null
C24_TokenConsistent ==
    /\ [](apiAuth.authToken = apiAuth.stored)
    /\ [][\A op \in TokenOps :
             Sent(op) => (authCall'[op].bearer # Null <=> apiAuth'.authToken # Null)]_vars

----------------------------------------------------------------------------
(* Properties of logout (SpecAuth) *)

\* C25: when logout() completes, whether apiService.logout() resolved or was
\* rejected, the ApiService holds no credential: authToken is null and
\* localStorage has no 'auth_token'
C25_LogoutClearsToken ==
    [][LogoutCompletes => apiAuth'.authToken = Null /\ apiAuth'.stored = Null]_vars

\* C26: a checkAuthStatus() that was in flight when a logout() completed
\* does not set isAuthenticated to true when it completes
C26_LogoutNotUndone ==
    [][(CheckAuthStatusCompletes /\ authCall["checkAuthStatus"].overtaken) =>
          authState'.isAuthenticated = FALSE]_vars

----------------------------------------------------------------------------
(* Properties of overlapping useUpdateEmail mutations (SpecUpdate) *)

\* mutation o has written its optimistic values and has not failed
Standing(o) == update[o].pc \in {"request", "resolved", "succeeded"}

\* C27: when a mutation has failed and rolled back, the detail entry of the
\* email still holds the values of every other mutation on the same email
\* that is pending or has succeeded
C27_RollbackKeepsOtherUpdate ==
    \A m \in UpdateSlots, o \in UpdateSlots :
       (/\ m # o
        /\ update[m].pc = "rolledBack"
        /\ Standing(o)
        /\ update[o].emailId = update[m].emailId) =>
          LET now == queryCache.detail[update[m].emailId]
          IN  \A f \in DOMAIN update[o].updates :
                 /\ now.present
                 /\ f \in DOMAIN now.data
                 /\ now.data[f] = update[o].updates[f]

----------------------------------------------------------------------------
(* SpecPolling: the poll loops when every request is answered and every
   timer fires *)

NextPolling ==
    \/ \E s \in Slots, h \in Hooks : Mutate(s, h)
    \/ \E s \in Slots : ServerAccept(s)
    \/ \E s \in Slots : OnSuccess(s)
    \/ \E s \in Slots : TimerFires(s)
    \/ \E s \in Slots : ServerStatus(s)
    \/ \E s \in Slots : PollTask(s)
    \/ \E t \in TaskIds : JobStart(t)
    \/ \E t \in TaskIds, o \in {"SUCCESS", "FAILURE"} : JobFinish(t, o)
    \/ \E t \in TaskIds : Cancel(t)

\* setTimeout callbacks run, requests are answered, and awaits resume
SpecPolling ==
    /\ Init
    /\ [][NextPolling]_vars
    /\ \A s \in Slots :
          /\ WF_vars(OnSuccess(s))
          /\ WF_vars(TimerFires(s))
          /\ WF_vars(ServerStatus(s))
          /\ WF_vars(PollTask(s))

\* C28: a task that is listed in activeTasks while its job is terminal
\* (SUCCESS, FAILURE or REVOKED) is eventually not listed in activeTasks
C28_TerminalTaskLeavesActive ==
    \A t \in TaskIds :
       (t \in DOMAIN activeTasks /\ job[t] \in TerminalStatuses)
          ~> (t \notin DOMAIN activeTasks)

====
